---- MODULE Spec2Model ----
(***************************************************************************)
(* Model of src/App.js: the upload / inquiry orchestration of the App      *)
(* component.  The React state cells are the variables; every event        *)
(* handler is an action; an async handler is split at each await, and the  *)
(* values it closed over at invocation travel with it in a closure record. *)
(***************************************************************************)
EXTENDS Integers, Sequences, FiniteSets, TLC

\* ------------------------------------------------------------- bounds
\* Operations that reach the network (upload attempts that probe, inquiries
\* that post) per behaviour.
MaxCalls == 3

\* ------------------------------------------------------- JS values
Undefined == "undefined"
Null == "null"
\* JS truthiness of the values the handlers test with !x and x || y
Falsy(x) == x \in {"", Undefined, Null}
OrElse(x, y) == IF Falsy(x) THEN y ELSE x

\* A string the code inspects character-wise is a sequence of characters.
\* What the operator may type into the inquiry box.
Texts == {<<>>, <<" ", " ", " ">>, <<" ", "q", " ">>}

RECURSIVE TrimStart(_)
TrimStart(s) ==
  IF s # <<>> /\ Head(s) = " " THEN TrimStart(Tail(s)) ELSE s

RECURSIVE TrimEnd(_)
TrimEnd(s) ==
  IF s # <<>> /\ s[Len(s)] = " " THEN TrimEnd(SubSeq(s, 1, Len(s) - 1)) ELSE s

TrimNothing(s) == s   \* variant: the text tested as typed, untrimmed

\* String.prototype.trim
Trim(s) == TrimEnd(TrimStart(s))

\* String.prototype.includes on a message held as a sequence of words
Includes(msg, word) == \E i \in 1..Len(msg) : msg[i] = word

\* ------------------------------------------------- fixed messages
MsgNoFile == "Please select a file to upload."
MsgServerDown == "Backend server is not running. Please start the server on http://localhost:5001 and try again."
MsgCors == "CORS error: The frontend port does not match the allowed origin in the backend. Check the browser console for details."
MsgUploadFailed == "An error occurred during the upload process."
MsgNoMessage == "Please enter a message to proceed."
MsgChatFailed == "An error occurred while processing your request."
NoSummary == "No summary available."

\* --------------------------------------------------- the remote service
\* The files the operator can pick; e.target.files[0] is undefined when the
\* picker is dismissed.  A file is identified with its name.
Docs == {"a.pdf", "b.docx"}
FileChoices == Docs \cup {Undefined}

\* What the service issues for a document.
CaseIdOf(d) == IF d = "a.pdf" THEN "case-a" ELSE "case-b"
SummaryOf(d) == IF d = "a.pdf" THEN "summary-a" ELSE "summary-b"
StoredNameOf(d) == IF d = "a.pdf" THEN "stored-a.pdf" ELSE "stored-b.docx"

\* A response body.  type is the JS shape of res.data; an absent field reads
\* as undefined.
Body(type, summ, cid, fname, reply, err) ==
  [type |-> type, summary |-> summ, case_id |-> cid, filename |-> fname,
   reply |-> reply, error |-> err]
EmptyObject == Body("object", Undefined, Undefined, Undefined, Undefined, Undefined)
NoBody == Body("undefined", Undefined, Undefined, Undefined, Undefined, Undefined)
TextBody == Body("string", Undefined, Undefined, Undefined, Undefined, Undefined)
ErrorBody(e) == Body("object", Undefined, Undefined, Undefined, Undefined, e)

\* The settled result of one axios call (after axios-retry has given up):
\* ok, or a rejection with or without err.response.
Resolved(data) ==
  [ok |-> TRUE, hasResponse |-> TRUE, data |-> data, message |-> <<>>,
   code |-> Undefined]
Rejected(hasResponse, data, message, code) ==
  [ok |-> FALSE, hasResponse |-> hasResponse, data |-> data,
   message |-> message, code |-> code]

MsgStatus == <<"Request", "failed", "with", "status", "code", "500">>
MsgNetwork == <<"Network", "Error">>
MsgBlocked == <<"blocked", "by", "CORS", "policy:", "No", "Access-Control", "header">>
MsgInvalid == <<"Invalid", "response", "format", "from", "server">>
MsgTypeError == <<"Cannot", "read", "properties", "of", "null">>

Rejections ==
  { Rejected(TRUE, ErrorBody("Document not found"), MsgStatus, "ERR_BAD_REQUEST"),
    Rejected(TRUE, TextBody, MsgStatus, "ERR_BAD_RESPONSE"),
    Rejected(FALSE, NoBody, MsgNetwork, "ECONNREFUSED"),
    Rejected(FALSE, NoBody, MsgBlocked, "ERR_NETWORK") }

HealthResults == {Resolved(EmptyObject)} \cup Rejections

UploadBodies(d) ==
  { Body("object", SummaryOf(d), CaseIdOf(d), StoredNameOf(d), Undefined, Undefined),
    Body("object", SummaryOf(d), CaseIdOf(d), Undefined, Undefined, Undefined),
    Body("object", SummaryOf(d), Undefined, Undefined, Undefined, Undefined),
    EmptyObject, NoBody, TextBody }
UploadResults(d) == {Resolved(b) : b \in UploadBodies(d)} \cup Rejections

ChatBodies ==
  { Body("object", Undefined, Undefined, Undefined, "Pending", Undefined),
    EmptyObject,
    Body("null", Undefined, Undefined, Undefined, Undefined, Undefined) }
ChatResults == {Resolved(b) : b \in ChatBodies} \cup Rejections

\* -------------------------------------------------------------- state
VARIABLES
  file, summary, error, userMessage, chatLog, documentId, filename,
  isUploading, uploadStatus,   \* the useState cells
  uploads,      \* handleUpload invocations suspended at an await
  asks,         \* handleSendMessage invocations suspended at the await; with
                \* each, the log it was invoked on (log0), whether it
                \* has run alone so far (solo), and whether an upload has
                \* succeeded since it was invoked (stale)
  healthCalls, uploadCalls, chatCalls,  \* requests issued to each endpoint
  request       \* one axios request as axios-retry carries it to its result

appVars == <<file, summary, error, userMessage, chatLog, documentId, filename,
             isUploading, uploadStatus, uploads, asks,
             healthCalls, uploadCalls, chatCalls>>
vars == <<appVars, request>>

\* No request in hand.
IdleRequest ==
  [phase |-> "idle", endpoint |-> "none", doc |-> Undefined, retryCount |-> 0,
   delays |-> <<>>, failures |-> <<>>, result |-> Resolved(NoBody),
   shown |-> ""]

Init ==
  /\ file = Null
  /\ summary = ""
  /\ error = ""
  /\ userMessage = <<>>
  /\ chatLog = <<>>
  /\ documentId = ""
  /\ filename = ""
  /\ isUploading = FALSE
  /\ uploadStatus = Null
  /\ uploads = {}
  /\ asks = {}
  /\ healthCalls = 0
  /\ uploadCalls = 0
  /\ chatCalls = 0
  /\ request = IdleRequest

\* A turn of the log.  The content typed by the operator is a sequence of
\* characters; a string received from the service is kept whole, as a
\* one-element sequence.
Turn(role, content) == [role |-> role, content |-> content]
Whole(str) == <<str>>

\* ------------------------------------------------ checkServerHealth
\* try { await axios.get(health) ; return true } catch { return false }
checkServerHealthAlwaysUp(res) == TRUE   \* variant: the catch returns true too
checkServerHealth(res) == res.ok

\* ------------------------------------------------- handleFileChange
handleFileChange(f) ==
  /\ file' = f
  /\ error' = ""
  /\ uploadStatus' = Null
  /\ UNCHANGED <<summary, userMessage, chatLog, documentId, filename,
                 isUploading, uploads, asks, healthCalls, uploadCalls, chatCalls>>

\* onChange of the inquiry box: setUserMessage(e.target.value)
setUserMessage(t) ==
  /\ userMessage' = t
  /\ UNCHANGED <<file, summary, error, chatLog, documentId, filename,
                 isUploading, uploadStatus, uploads, asks,
                 healthCalls, uploadCalls, chatCalls>>

\* ----------------------------------------------------- handleUpload
\* The upload button is the only caller, and it is disabled={isUploading}.
uploadButtonNeverDisabled == FALSE   \* variant: the disabled attribute dropped
uploadButtonDisabled == isUploading

\* Bookkeeping, not program state: every inquiry in flight is marked as
\* having shared its time with another operation that reaches the network.
overlapped(inFlight) == {[a EXCEPT !.solo = FALSE] : a \in inFlight}

\* Bookkeeping, not program state: every inquiry in flight when an upload
\* succeeds was asked in the conversation that the success has just closed.
outdated(inFlight) == {[a EXCEPT !.stale = TRUE] : a \in inFlight}

\* variant: handleUpload without its !file check
handleUploadUnchecked ==
  /\ ~uploadButtonDisabled
  /\ healthCalls + chatCalls < MaxCalls
  /\ isUploading' = TRUE
  /\ error' = ""
  /\ uploadStatus' = Null
  /\ healthCalls' = healthCalls + 1
  /\ uploads' = uploads \cup
       {[id |-> healthCalls + 1, file |-> file, pc |-> "probing",
                   formData |-> Undefined]}
  /\ asks' = overlapped(asks)
  /\ UNCHANGED <<file, summary, userMessage, chatLog, documentId, filename,
                 uploadCalls, chatCalls>>

\* handleUpload up to its first await (the health probe).
handleUpload ==
  /\ ~uploadButtonDisabled
  /\ IF Falsy(file)
       THEN /\ error' = MsgNoFile
            /\ uploadStatus' = "failed"
            /\ UNCHANGED <<isUploading, uploads, healthCalls, asks>>
       ELSE /\ healthCalls + chatCalls < MaxCalls
            /\ isUploading' = TRUE
            /\ error' = ""
            /\ uploadStatus' = Null
            /\ healthCalls' = healthCalls + 1
            /\ uploads' = uploads \cup
                 {[id |-> healthCalls + 1, file |-> file, pc |-> "probing",
                   formData |-> Undefined]}
            /\ asks' = overlapped(asks)
  /\ UNCHANGED <<file, summary, userMessage, chatLog, documentId, filename,
                 uploadCalls, chatCalls>>

\* variant: the form filled from the selection current at that moment
\* instead of the file the invocation closed over
uploadProbedCurrentFile(u, res) ==
  /\ u.pc = "probing"
  /\ IF ~checkServerHealth(res)
       THEN /\ error' = MsgServerDown
            /\ isUploading' = FALSE
            /\ uploadStatus' = "failed"
            /\ uploads' = uploads \ {u}
            /\ UNCHANGED uploadCalls
       ELSE /\ uploads' = (uploads \ {u}) \cup
                 {[u EXCEPT !.pc = "uploading", !.formData = file]}
            /\ uploadCalls' = uploadCalls + 1
            /\ UNCHANGED <<error, isUploading, uploadStatus>>
  /\ UNCHANGED <<file, summary, userMessage, chatLog, documentId, filename,
                 asks, healthCalls, chatCalls>>

\* variant: the probe-false path returning without setIsUploading(false)
uploadProbedLeavingFlag(u, res) ==
  /\ u.pc = "probing"
  /\ IF ~checkServerHealth(res)
       THEN /\ error' = MsgServerDown
            /\ uploadStatus' = "failed"
            /\ uploads' = uploads \ {u}
            /\ UNCHANGED <<uploadCalls, isUploading>>
       ELSE /\ uploads' = (uploads \ {u}) \cup
                 {[u EXCEPT !.pc = "uploading", !.formData = u.file]}
            /\ uploadCalls' = uploadCalls + 1
            /\ UNCHANGED <<error, isUploading, uploadStatus>>
  /\ UNCHANGED <<file, summary, userMessage, chatLog, documentId, filename,
                 asks, healthCalls, chatCalls>>

\* The health probe of attempt u settles with res: handleUpload from the
\* first await to the second (the POST to /upload), or to its early return.
\* formData.append('file', file) reads the file the invocation closed over.
uploadProbed(u, res) ==
  /\ u.pc = "probing"
  /\ IF ~checkServerHealth(res)
       THEN /\ error' = MsgServerDown
            /\ isUploading' = FALSE
            /\ uploadStatus' = "failed"
            /\ uploads' = uploads \ {u}
            /\ UNCHANGED uploadCalls
       ELSE /\ uploads' = (uploads \ {u}) \cup
                 {[u EXCEPT !.pc = "uploading", !.formData = u.file]}
            /\ uploadCalls' = uploadCalls + 1
            /\ UNCHANGED <<error, isUploading, uploadStatus>>
  /\ UNCHANGED <<file, summary, userMessage, chatLog, documentId, filename,
                 asks, healthCalls, chatCalls>>

\* if (!uploadRes.data || typeof uploadRes.data !== 'object') throw ...
uploadResponseInvalid(data) ==
  data.type \in {"undefined", "null"} \/ data.type # "object"

\* What reaches the catch block: the rejection of the POST, or the Error
\* thrown by the validation of a resolved response.
uploadThrown(res) ==
  IF ~res.ok THEN res
  ELSE Rejected(FALSE, NoBody, MsgInvalid, Undefined)

\* err.response?.data?.error
responseError(err) == IF err.hasResponse THEN err.data.error ELSE Undefined

\* variant: the fallback without the Access-Control test
uploadErrorMessageNoCors(err) ==
  OrElse(responseError(err), MsgUploadFailed)

\* the argument of setError in the catch block of handleUpload
uploadErrorMessage(err) ==
  OrElse(responseError(err),
         IF Includes(err.message, "Access-Control") THEN MsgCors
         ELSE MsgUploadFailed)

\* variant: the success path without setChatLog([])
uploadSettledKeepingLog(u, res) ==
  /\ u.pc = "uploading"
  /\ IF res.ok /\ ~uploadResponseInvalid(res.data)
       THEN /\ summary' = OrElse(res.data.summary, NoSummary)
            /\ documentId' = OrElse(res.data.case_id, "")
            /\ filename' = OrElse(res.data.filename, u.file)
            /\ error' = ""
            /\ uploadStatus' = "success"
            /\ asks' = outdated(asks)
            /\ UNCHANGED chatLog
       ELSE /\ error' = uploadErrorMessage(uploadThrown(res))
            /\ uploadStatus' = "failed"
            /\ UNCHANGED <<summary, documentId, filename, chatLog, asks>>
  /\ isUploading' = FALSE
  /\ uploads' = uploads \ {u}
  /\ UNCHANGED <<file, userMessage, healthCalls, uploadCalls, chatCalls>>

\* variant: the catch block also calling setChatLog([])
uploadSettledClearingLog(u, res) ==
  /\ u.pc = "uploading"
  /\ IF res.ok /\ ~uploadResponseInvalid(res.data)
       THEN /\ summary' = OrElse(res.data.summary, NoSummary)
            /\ documentId' = OrElse(res.data.case_id, "")
            /\ filename' = OrElse(res.data.filename, u.file)
            /\ chatLog' = <<>>
            /\ error' = ""
            /\ uploadStatus' = "success"
            /\ asks' = outdated(asks)
       ELSE /\ error' = uploadErrorMessage(uploadThrown(res))
            /\ uploadStatus' = "failed"
            /\ chatLog' = <<>>
            /\ UNCHANGED <<summary, documentId, filename, asks>>
  /\ isUploading' = FALSE
  /\ uploads' = uploads \ {u}
  /\ UNCHANGED <<file, userMessage, healthCalls, uploadCalls, chatCalls>>

\* The POST of attempt u settles with res: the try / catch / finally.
uploadSettled(u, res) ==
  /\ u.pc = "uploading"
  /\ IF res.ok /\ ~uploadResponseInvalid(res.data)
       THEN /\ summary' = OrElse(res.data.summary, NoSummary)
            /\ documentId' = OrElse(res.data.case_id, "")
            /\ filename' = OrElse(res.data.filename, u.file)
            /\ chatLog' = <<>>
            /\ error' = ""
            /\ uploadStatus' = "success"
            /\ asks' = outdated(asks)
       ELSE /\ error' = uploadErrorMessage(uploadThrown(res))
            /\ uploadStatus' = "failed"
            /\ UNCHANGED <<summary, documentId, filename, chatLog, asks>>
  /\ isUploading' = FALSE
  /\ uploads' = uploads \ {u}
  /\ UNCHANGED <<file, userMessage, healthCalls, uploadCalls, chatCalls>>

\* ------------------------------------------------ handleSendMessage
\* variant: newChatLog taken as [...chatLog], the Operator turn left out
handleSendMessageNoTurn ==
  IF Trim(userMessage) = <<>>
    THEN /\ error' = MsgNoMessage
         /\ UNCHANGED <<file, summary, userMessage, chatLog, documentId,
                        filename, isUploading, uploadStatus, uploads, asks,
                        healthCalls, uploadCalls, chatCalls>>
    ELSE /\ healthCalls + chatCalls < MaxCalls
         /\ LET newChatLog == chatLog
            IN /\ chatLog' = newChatLog
               /\ asks' = overlapped(asks) \cup
                    {[id |-> chatCalls + 1, newChatLog |-> newChatLog,
                      message |-> userMessage, case_id |-> documentId,
                      log0 |-> chatLog,
                      solo |-> (asks = {} /\ uploads = {}),
                      stale |-> FALSE]}
         /\ userMessage' = <<>>
         /\ error' = ""
         /\ chatCalls' = chatCalls + 1
         /\ UNCHANGED <<file, summary, documentId, filename, isUploading,
                        uploadStatus, uploads, healthCalls, uploadCalls>>

\* handleSendMessage up to its await (the POST to /chat).
handleSendMessage ==
  IF Trim(userMessage) = <<>>   \* !userMessage.trim(): '' is falsy
    THEN /\ error' = MsgNoMessage
         /\ UNCHANGED <<file, summary, userMessage, chatLog, documentId,
                        filename, isUploading, uploadStatus, uploads, asks,
                        healthCalls, uploadCalls, chatCalls>>
    ELSE /\ healthCalls + chatCalls < MaxCalls
         /\ LET newChatLog == Append(chatLog, Turn("user", userMessage))
            IN /\ chatLog' = newChatLog
               /\ asks' = overlapped(asks) \cup
                    {[id |-> chatCalls + 1, newChatLog |-> newChatLog,
                      message |-> userMessage, case_id |-> documentId,
                      log0 |-> chatLog,
                      solo |-> (asks = {} /\ uploads = {}),
                      stale |-> FALSE]}
         /\ userMessage' = <<>>
         /\ error' = ""
         /\ chatCalls' = chatCalls + 1
         /\ UNCHANGED <<file, summary, documentId, filename, isUploading,
                        uploadStatus, uploads, healthCalls, uploadCalls>>

\* Reading res.data.reply throws a TypeError when res.data is null.
chatThrown(res) ==
  IF ~res.ok THEN res
  ELSE Rejected(FALSE, NoBody, MsgTypeError, Undefined)

chatErrorMessageGeneric(err) == MsgChatFailed   \* variant: the fallback only

\* const errorMsg = err.response?.data?.error || '...'
chatErrorMessage(err) == OrElse(responseError(err), MsgChatFailed)

\* The POST of inquiry a settles with res: the rest of the try, or the catch.
chatSettled(a, res) ==
  /\ IF res.ok /\ res.data.type \notin {"null", "undefined"}
       THEN /\ chatLog' = Append(a.newChatLog,
                                 Turn("assistant", Whole(res.data.reply)))
            /\ UNCHANGED error
       ELSE LET errorMsg == chatErrorMessage(chatThrown(res))
            IN /\ chatLog' = Append(a.newChatLog,
                                    Turn("assistant", Whole(errorMsg)))
               /\ error' = errorMsg
  /\ asks' = asks \ {a}
  /\ UNCHANGED <<file, summary, userMessage, documentId, filename, isUploading,
                 uploadStatus, uploads, healthCalls, uploadCalls, chatCalls>>

\* ------------------------------------------------------ next-state
\* The handlers leave the transport's bookkeeping alone: in this
\* specification a request's result is what axios-retry finally hands over.
Next ==
  \/ \E f \in FileChoices : handleFileChange(f) /\ UNCHANGED request
  \/ \E t \in Texts : setUserMessage(t) /\ UNCHANGED request
  \/ handleUpload /\ UNCHANGED request
  \/ \E u \in uploads : \E res \in HealthResults :
       uploadProbed(u, res) /\ UNCHANGED request
  \/ \E u \in uploads : \E res \in UploadResults(u.formData) :
       uploadSettled(u, res) /\ UNCHANGED request
  \/ handleSendMessage /\ UNCHANGED request
  \/ \E a \in asks : \E res \in ChatResults :
       chatSettled(a, res) /\ UNCHANGED request

Spec == Init /\ [][Next]_vars

\* Every network call of an upload attempt settles: the probe within its
\* 2000 ms timeout, the POST within its 30000 ms timeout.
probeResolves ==
  \E u \in uploads : \E res \in HealthResults :
    uploadProbed(u, res) /\ UNCHANGED request
postResolves ==
  \E u \in uploads : \E res \in UploadResults(u.formData) :
    uploadSettled(u, res) /\ UNCHANGED request
FairSpec == Spec /\ WF_vars(probeResolves) /\ WF_vars(postResolves)

\* ------------------------------------------------- axios-retry
\* axiosRetry(axios, { retries, retryDelay, retryCondition })
Retries == 3
retryDelay(retryCount) == retryCount * 1000
retryConditionAlways(err) == TRUE   \* variant: every failure is retried
retryCondition(err) == err.code = "ECONNREFUSED" \/ ~err.hasResponse

\* What one attempt of a request to an endpoint can come back with.
AttemptResults(endpoint, d) ==
  IF endpoint = "health" THEN HealthResults
  ELSE IF endpoint = "upload" THEN UploadResults(d)
  ELSE ChatResults

\* The message the calling handler passes to setError for the result the
\* transport hands it ("" when it takes the success path).
surfacedError(endpoint, res) ==
  IF endpoint = "health"
    THEN IF checkServerHealth(res) THEN "" ELSE MsgServerDown
  ELSE IF endpoint = "upload"
    THEN IF res.ok /\ ~uploadResponseInvalid(res.data) THEN ""
         ELSE uploadErrorMessage(uploadThrown(res))
  ELSE IF res.ok /\ res.data.type \notin {"null", "undefined"} THEN ""
       ELSE chatErrorMessage(chatThrown(res))

\* A handler issues a request (axios.get / axios.post).
axiosSend(endpoint, d) ==
  /\ request.phase = "idle"
  /\ request' = [IdleRequest EXCEPT !.phase = "sent", !.endpoint = endpoint,
                                    !.doc = d]
  /\ UNCHANGED appVars

\* One attempt comes back with res: the axios-retry interceptor retries it
\* after retryDelay, or lets the result through to the handler.
axiosAttempt(res) ==
  /\ request.phase = "sent"
  /\ IF ~res.ok /\ request.retryCount < Retries /\ retryCondition(res)
       THEN request' =
              [request EXCEPT
                 !.retryCount = @ + 1,
                 !.delays = Append(@, retryDelay(request.retryCount + 1)),
                 !.failures = Append(@, res.code)]
       ELSE request' =
              [request EXCEPT
                 !.phase = "settled",
                 !.result = res,
                 !.shown = surfacedError(request.endpoint, res)]
  /\ UNCHANGED appVars

\* The handler has consumed the result.
axiosDone ==
  /\ request.phase = "settled"
  /\ request' = IdleRequest
  /\ UNCHANGED appVars

TransportNext ==
  \/ \E d \in Docs : axiosSend("upload", d)
  \/ \E endpoint \in {"health", "chat"} : axiosSend(endpoint, Undefined)
  \/ \E res \in AttemptResults(request.endpoint, request.doc) : axiosAttempt(res)
  \/ axiosDone

TransportSpec == Init /\ [][TransportNext]_vars

\* ============================================================ claims
\* The body of a resolved upload response carries no server-issued
\* identifier: it is no object, or its case_id is absent or empty.
LacksIdentifier(data) == data.type # "object" \/ Falsy(data.case_id)

\* C1: whenever the upload call resolves with a body that lacks a
\* server-issued identifier (for instance {}), or that is missing or not an
\* object, the attempt ends Failed; it does not end Succeeded and stores no
\* DocumentIdentity.
C1_MalformedResponseFails ==
  [][\A u \in uploads : \A res \in UploadResults(u.file) :
       (res.ok /\ LacksIdentifier(res.data) /\ uploadSettled(u, res))
         => (uploadStatus' = "failed" /\ documentId' = documentId)]_vars

\* C2: at most one upload attempt is in flight at any time; while one is in
\* flight the in-progress flag is up, handleUpload cannot run, no step issues
\* another health probe, and an attempt calls the upload endpoint at most
\* once (and not again once it is Uploading).
C2_SingleUploadInFlight ==
  /\ [](Cardinality(uploads) <= 1)
  /\ []((uploads # {}) <=> isUploading)
  /\ [](uploads # {} => ~ENABLED handleUpload)
  /\ [](uploadCalls <= healthCalls)
  /\ [][uploads # {} =>
          /\ healthCalls' = healthCalls
          /\ uploadCalls' \in {uploadCalls, uploadCalls + 1}
          /\ (\E u \in uploads : u.pc = "uploading") => uploadCalls' = uploadCalls
       ]_vars

\* C2 witness: a second attempt, started after the first resolved, is
\* Uploading, and each of the two attempts has made one probe and one upload
\* call.
C2_Witness ==
  /\ healthCalls = 2 /\ uploadCalls = 2
  /\ \E u \in uploads : u.pc = "uploading"

\* The log alternates user, assistant, user, assistant, ... with one
\* assistant turn per user turn.
StrictlyAlternates(log) ==
  /\ Len(log) % 2 = 0
  /\ \A i \in 1..Len(log) :
       log[i].role = IF i % 2 = 1 THEN "user" ELSE "assistant"

\* C3: once every accepted inquiry has resolved, the log strictly
\* alternates Operator, Assistant, ... with one Assistant entry per Operator
\* entry, whether or not the inquiries' network calls overlapped.
C3_OneAssistantPerAsk == (asks = {}) => StrictlyAlternates(chatLog)

\* C4: selecting a document leaves UploadOutcome = NotAttempted, no
\* DocumentIdentity stored and the previous conversation discarded.
C4_SelectClearsSession ==
  [][\A f \in Docs :
       handleFileChange(f)
         => (uploadStatus' = Null /\ documentId' = "" /\ chatLog' = <<>>)]_vars

\* C5: the inquiry endpoint is called only while a DocumentIdentity is
\* stored; it is never called with an empty or absent identifier.
C5_AskNeedsDocument ==
  [][chatCalls' # chatCalls => ~Falsy(documentId)]_vars

\* C6: handleUpload with no file selected ends Failed with the validation
\* message and reaches no endpoint: no health call, no upload call, no
\* attempt in flight, and the in-progress flag stays down.
C6_UploadWithoutFile ==
  [][(Falsy(file) /\ handleUpload)
       => /\ uploadStatus' = "failed"
          /\ error' = MsgNoFile
          /\ ~isUploading /\ ~isUploading'
          /\ uploads' = uploads
          /\ UNCHANGED <<healthCalls, uploadCalls, chatCalls>>]_vars

\* C6 witness: after a first full attempt, a file-less handleUpload has
\* ended Failed with the validation message.
C6_Witness ==
  /\ Falsy(file) /\ uploadStatus = "failed" /\ error = MsgNoFile
  /\ healthCalls = 1 /\ uploads = {}

\* C7: when the probe of an attempt fails, the attempt ends Failed with the
\* service-unavailable message without an upload call; and every upload call
\* is made by an attempt that is Probing, in the step in which its own probe
\* succeeded.
C7_ProbeGatesUpload ==
  [][/\ \A u \in uploads : \A res \in HealthResults :
          (~res.ok /\ uploadProbed(u, res))
            => /\ uploadStatus' = "failed"
               /\ error' = MsgServerDown
               /\ uploadCalls' = uploadCalls
               /\ ~isUploading'
               /\ \A v \in uploads' : v.id # u.id
     /\ uploadCalls' # uploadCalls
          => \E u \in uploads : \E res \in HealthResults :
               /\ res.ok /\ u.pc = "probing" /\ uploadProbed(u, res)
               /\ uploadCalls' = uploadCalls + 1
               /\ \E v \in uploads' : v.id = u.id /\ v.pc = "uploading"
    ]_vars

\* C7 witness: one attempt was made, its probe failed, and the upload
\* endpoint was not called.
C7_Witness ==
  /\ error = MsgServerDown /\ uploadStatus = "failed"
  /\ healthCalls = 1 /\ uploadCalls = 0 /\ uploads = {}

\* A body {summary, case_id, filename?} with both required fields present.
WellFormed(data) ==
  data.type = "object" /\ ~Falsy(data.summary) /\ ~Falsy(data.case_id)

\* C8: when the upload call resolves with a well-formed payload, the
\* attempt ends Succeeded with documentId the returned case_id, summary the
\* returned summary, the error message cleared and the log reset to empty.
C8_UploadSuccess ==
  [][\A u \in uploads : \A res \in UploadResults(u.file) :
       (res.ok /\ WellFormed(res.data) /\ uploadSettled(u, res))
         => /\ uploadStatus' = "success"
            /\ documentId' = res.data.case_id
            /\ summary' = res.data.summary
            /\ error' = ""
            /\ chatLog' = <<>>
            /\ ~isUploading'
            /\ u \notin uploads']_vars

\* C8 witness: an upload of a.pdf succeeded after an inquiry had been
\* answered, and the log is empty again.
C8_Witness ==
  /\ uploadStatus = "success" /\ documentId = CaseIdOf("a.pdf")
  /\ summary = SummaryOf("a.pdf") /\ error = ""
  /\ chatLog = <<>> /\ chatCalls >= 1 /\ asks = {}

\* A text that is empty or consists of white space only.
IsBlankText(s) == \A i \in 1..Len(s) : s[i] = " "

\* C9: handleSendMessage on an empty or whitespace-only text leaves the
\* log and the pending input as they were and calls no endpoint.
C9_BlankAskIsNoop ==
  [][(IsBlankText(userMessage) /\ handleSendMessage)
       => UNCHANGED <<chatLog, userMessage, asks, chatCalls, healthCalls,
                      uploadCalls>>]_vars

\* C9 witness: a whitespace-only text was rejected while the log held an
\* answered inquiry.
C9_Witness ==
  /\ error = MsgNoMessage /\ userMessage = <<" ", " ", " ">>
  /\ Len(chatLog) = 2 /\ chatCalls = 1

\* The service answered the inquiry with a reply / with {error: string}.
Replied(res) ==
  res.ok /\ res.data.type = "object" /\ ~Falsy(res.data.reply)
ServiceError(res) ==
  ~res.ok /\ res.hasResponse /\ res.data.type = "object" /\ ~Falsy(res.data.error)

\* C10: an inquiry that ran with no other network operation overlapping
\* it, invoked on log L with text t, finds the log at L ++ [user t] when its
\* call settles and leaves it at L ++ [user t, assistant r], r being the
\* reply on success and the service's error string on {error: string}.
C10_SoloAskAppendsTwo ==
  [][\A a \in asks : \A res \in ChatResults :
       (a.solo /\ (Replied(res) \/ ServiceError(res)) /\ chatSettled(a, res))
         => LET r == IF res.ok THEN res.data.reply ELSE res.data.error
            IN /\ chatLog = Append(a.log0, Turn("user", a.message))
               /\ chatLog' = a.log0 \o <<Turn("user", a.message),
                                          Turn("assistant", Whole(r))>>
               /\ Len(chatLog') = Len(a.log0) + 2]_vars

\* C10 witness: the only network operation so far was one inquiry, which
\* the service answered with {error: "Document not found"}.
C10_Witness ==
  /\ chatCalls = 1 /\ healthCalls = 0 /\ asks = {}
  /\ chatLog = <<Turn("user", <<" ", "q", " ">>),
                 Turn("assistant", Whole("Document not found"))>>

\* C11: an upload attempt closes over the selection current when it is
\* invoked, the selection changes only by handleFileChange, and the document
\* the attempt later posts to the upload endpoint is that same one, whatever
\* was selected in between.
C11_LatestSelectionSubmitted ==
  [][/\ file' # file => \E f \in FileChoices : handleFileChange(f) /\ file' = f
     /\ \A u \in uploads' \ uploads :
          u.pc = "probing" => (u.file = file /\ u.file \in Docs)
     /\ \A u \in uploads : \A v \in uploads' :
          (v.id = u.id /\ u.pc = "probing" /\ v.pc = "uploading")
            => (v.formData = u.file /\ v.file = u.file)
    ]_vars

\* C11 witness: b.docx was selected when the attempt was invoked and is
\* what was posted, although a.pdf has been selected since.
C11_Witness ==
  \E u \in uploads :
    u.pc = "uploading" /\ u.formData = "b.docx" /\ file = "a.pdf"

\* Every result an attempt can come back with, whatever the endpoint.
AllResults ==
  HealthResults \cup ChatResults \cup UNION {UploadResults(d) : d \in Docs}

C13_SucceededMatchesSelection ==
  (uploadStatus = "success" /\ ~Falsy(documentId) /\ file \in Docs)
    => /\ documentId = CaseIdOf(file)
       /\ summary = SummaryOf(file)

\* C14: an inquiry that was asked about one stored document before an
\* upload succeeded, and settles after it, belongs to the conversation that
\* success closed: its settling leaves the log of the new conversation as it
\* is, so no turn of the previous document's conversation comes back.
C14_LogScopedToDocument ==
  [][\A a \in asks : \A res \in ChatResults :
       (a.stale /\ ~Falsy(a.case_id) /\ ~Falsy(documentId)
          /\ chatSettled(a, res))
         => chatLog' = chatLog]_vars

\* s is an initial segment of t.
IsPrefix(s, t) == Len(s) <= Len(t) /\ SubSeq(t, 1, Len(s)) = s

\* The step is the reset of the log by an upload that succeeded.
SuccessfulUploadStep ==
  \E u \in uploads : \E res \in UploadResults(u.formData) :
    res.ok /\ ~uploadResponseInvalid(res.data) /\ uploadSettled(u, res)

\* C15: every step other than the reset done by a successful upload leaves
\* the log with the previous log as an initial segment: no turn is removed
\* or replaced, in whatever order overlapping inquiries settle.
C15_LogAppendOnly ==
  [][SuccessfulUploadStep \/ IsPrefix(chatLog, chatLog')]_vars

\* The number of Assistant turns in a log.
NumAssistant(log) ==
  Cardinality({i \in 1..Len(log) : log[i].role = "assistant"})

\* C16: the step that issues the inquiry call has appended the Operator
\* turn and cleared the pending input; an Assistant turn is added only by
\* the step in which an inquiry's call settles; and in every state each
\* Assistant turn of the log directly follows an Operator turn, and every
\* inquiry in flight carries a log that ends with its Operator turn.
C16_AssistantFollowsOperator ==
  /\ [](\A i \in 1..Len(chatLog) :
          chatLog[i].role = "assistant"
            => (i > 1 /\ chatLog[i - 1].role = "user"))
  /\ [](\A a \in asks :
          /\ a.newChatLog # <<>>
          /\ a.newChatLog[Len(a.newChatLog)] = Turn("user", a.message))
  /\ [][chatCalls' # chatCalls
          => /\ chatLog' = Append(chatLog, Turn("user", userMessage))
             /\ userMessage' = <<>>
             /\ chatCalls' = chatCalls + 1
             /\ NumAssistant(chatLog') = NumAssistant(chatLog)]_vars
  /\ [][NumAssistant(chatLog') > NumAssistant(chatLog)
          => (chatCalls' = chatCalls /\ \E a \in asks : a \notin asks')]_vars

\* C16 witness: two inquiries overlapped and both have settled; the log is
\* Operator, Operator, Assistant.
C16_Witness ==
  /\ asks = {} /\ Len(chatLog) = 3
  /\ chatLog[1].role = "user" /\ chatLog[2].role = "user"
  /\ chatLog[3].role = "assistant"

\* A step in which an upload attempt ends in failure: no file selected,
\* the probe false, the POST rejected or its response invalid.
FailedUploadStep ==
  \/ Falsy(file) /\ handleUpload
  \/ \E u \in uploads : \E res \in HealthResults :
       ~checkServerHealth(res) /\ uploadProbed(u, res)
  \/ \E u \in uploads : \E res \in UploadResults(u.formData) :
       (~res.ok \/ uploadResponseInvalid(res.data)) /\ uploadSettled(u, res)

\* C17: a step in which an upload attempt fails, and any step that turns
\* the upload outcome to "failed", leaves the conversation log, the stored
\* document identity, summary and filename, the selection and the pending
\* input as they were, and sets the outcome to "failed".
C17_FailedUploadFrame ==
  [][(FailedUploadStep \/ (uploadStatus # "failed" /\ uploadStatus' = "failed"))
       => /\ uploadStatus' = "failed"
          /\ UNCHANGED <<chatLog, documentId, summary, filename, file,
                         userMessage>>]_vars

\* C17 witness: a second upload was posted and failed while a document and
\* a conversation were held.
C17_Witness ==
  /\ uploadStatus = "failed" /\ uploads = {} /\ uploadCalls = 2
  /\ documentId = "case-a" /\ summary = SummaryOf("a.pdf")
  /\ chatLog # <<>>

\* C18: when every network call of an upload settles, an attempt that has
\* entered the in-progress state eventually leaves it with the outcome
\* "success" or "failed", the in-progress flag cleared and the upload
\* control enabled again; the flag is set exactly while an attempt is
\* pending, and the step that clears it sets one of the two outcomes.
C18_UploadTerminates ==
  /\ isUploading ~> (/\ ~isUploading /\ uploads = {}
                     /\ uploadStatus \in {"success", "failed"}
                     /\ ~uploadButtonDisabled)
  /\ [](isUploading <=> uploads # {})
  /\ [][(isUploading /\ ~isUploading')
          => uploadStatus' \in {"success", "failed"}]_vars

\* C18 witness: a first attempt ended at a false probe, and a further
\* attempt was started afterwards and succeeded.
C18_Witness ==
  /\ healthCalls = 2 /\ uploadCalls = 1 /\ uploads = {}
  /\ ~isUploading /\ uploadStatus = "success"

\* The error string a rejection carries from the service, if any.
CarriedError(res) ==
  IF res.hasResponse /\ res.data.type = "object" THEN res.data.error
  ELSE Undefined

\* C19: a step in which the POST of an upload is rejected sets the outcome
\* to "failed" and surfaces one message: the error string of the service's
\* response when it carries one, else the cross-origin message when the
\* failure text contains "Access-Control", else the generic upload-failure
\* message; the three are different strings.
C19_UploadErrorPrecedence ==
  /\ [][\A u \in uploads : \A res \in UploadResults(u.formData) :
          (~res.ok /\ uploadSettled(u, res))
            => /\ uploadStatus' = "failed"
               /\ error' = IF ~Falsy(CarriedError(res)) THEN CarriedError(res)
                           ELSE IF Includes(res.message, "Access-Control")
                                  THEN MsgCors
                                  ELSE MsgUploadFailed]_vars
  /\ [](/\ MsgCors # MsgUploadFailed
        /\ \A res \in Rejections :
             CarriedError(res) \notin {MsgCors, MsgUploadFailed})

\* C19 witness: the POST was rejected with a text naming Access-Control and
\* the cross-origin message is shown.
C19_Witness ==
  /\ uploadStatus = "failed" /\ error = MsgCors
  /\ uploadCalls = 1 /\ uploads = {} /\ ~isUploading

====
